---- MODULE Spec2Model ----
(***************************************************************************)
(* A model of soapy's legacy line of sight (src/soapy/lineofsight_legacy.py):*)
(* the metapupil geometry, the phase extraction, geometric and physical     *)
(* propagation, the correction step and frame().                            *)
(*                                                                          *)
(* Numbers.  The code computes in floating point; the model computes the   *)
(* same expressions exactly, over rationals <<n, d>> in lowest terms with   *)
(* d > 0.  Phases in radians are kept in units of pi, so that               *)
(* phs2Rad = 2*pi/(wavelength in nm) is the rational 2/wavelengthNm, and a  *)
(* complex field value amp*exp(i*arg) is the pair [amp, arg] with arg taken *)
(* modulo 2 (pi units), which is what exp(1j*x) keeps of x.                 *)
(***************************************************************************)
EXTENDS Integers, Sequences, FiniteSets, TLC

VARIABLES
    cfg,        \* the configuration the instance was constructed with
    phase,      \* self.phase: the array's values
    phaseAlloc, \* the statement that allocated the array self.phase is bound to
    EField,     \* self.EField: the array's values
    EFieldAlloc,\* the statement that allocated the array self.EField is bound to
    residual,   \* self.residual: unset, self.phase itself, or an array of its own
    call        \* the last call on the instance: method, arguments, outcome

vars == <<cfg, phase, phaseAlloc, EField, EFieldAlloc, residual, call>>

\* Python's None, where an array, a pair or a list may stand
None == <<>>

-----------------------------------------------------------------------------
(* Bounds of the model *)

MaxAlt == 2       \* altitudes (layers, source, correction tags) are 0..MaxAlt
MaxAngle == 2     \* angular positions are up to MaxAngle off axis
MaxDiam == 3      \* telescope diameters are 1..MaxDiam
MaxCorr == 1      \* at most MaxCorr correction terms in one frame() call

-----------------------------------------------------------------------------
(* Exact arithmetic *)

Abs(i) == IF i < 0 THEN -i ELSE i

RECURSIVE Gcd(_, _)
Gcd(a, b) == IF b = 0 THEN a ELSE Gcd(b, a % b)

\* n/d, both divided by their greatest common divisor g, the denominator positive
Lowest(n, d, g) ==
    IF d < 0 THEN <<(-n) \div g, (-d) \div g>> ELSE <<n \div g, d \div g>>

\* n/d in lowest terms with a positive denominator
Q(n, d) == Lowest(n, d, Gcd(Abs(n), Abs(d)))

R(i) == <<i, 1>>
RAdd(a, b) == Q(a[1] * b[2] + b[1] * a[2], a[2] * b[2])
RSub(a, b) == Q(a[1] * b[2] - b[1] * a[2], a[2] * b[2])
RMul(a, b) == Q(a[1] * b[1], a[2] * b[2])
RDiv(a, b) == Q(a[1] * b[2], a[2] * b[1])
RNeg(a) == <<-a[1], a[2]>>
RLt(a, b) == a[1] * b[2] < b[1] * a[2]
RFloor(a) == a[1] \div a[2]
\* x modulo 2, in [0, 2)
RMod2(a) == Q(a[1] % (2 * a[2]), a[2])

\* Python 3's round(): to the nearest integer, a half to the even one
PyRound(a) ==
    IF 2 * (a[1] - RFloor(a) * a[2]) < a[2] THEN RFloor(a)
    ELSE IF 2 * (a[1] - RFloor(a) * a[2]) > a[2] THEN RFloor(a) + 1
    ELSE IF RFloor(a) % 2 = 0 THEN RFloor(a) ELSE RFloor(a) + 1

-----------------------------------------------------------------------------
(* Arrays: [n |-> the side, v |-> the values], indexed <<row, column>> from 0 *)

Pix(n) == (0 .. n - 1) \X (0 .. n - 1)
\* an array's values are computed once, when it is made
Computed(v) == IF v = v THEN v ELSE v
Array(n, v) == [n |-> n, v |-> Computed(v)]
Zeros(n) == Array(n, [p \in Pix(n) |-> R(0)])
Scaled(a, k) == Array(a.n, [p \in Pix(a.n) |-> RMul(a.v[p], k)])
Plus(a, b) == Array(a.n, [p \in Pix(a.n) |-> RAdd(a.v[p], b.v[p])])
Minus(a, b) == Array(a.n, [p \in Pix(a.n) |-> RSub(a.v[p], b.v[p])])

\* A complex value amp * exp(i * arg): arg in units of pi, modulo 2; 0 has no arg
Phasor(amp, arg) == [amp |-> amp, arg |-> IF amp = 0 THEN R(0) ELSE RMod2(arg)]
\* numpy.exp(1j * a), elementwise
ExpI(a) == Array(a.n, [p \in Pix(a.n) |-> Phasor(1, a.v[p])])
\* numpy broadcasting, for the in-place operators: an array of another size
\* than the target's cannot be combined with it (no array here has size 1)
Broadcasts(a, target) == a.n = target.n
\* the elementwise product of two complex arrays
Times(f, g) ==
    Array(f.n, [p \in Pix(f.n) |->
                    Phasor(f.v[p].amp * g.v[p].amp, RAdd(f.v[p].arg, g.v[p].arg))])

-----------------------------------------------------------------------------
(* The configuration (config, soapyConfig and the constructor's arguments) *)

pupil_size == 2
sim_size == pupil_size
\* nx_out_pixels: the constructor's argument, or simSize when it is not given
nx_out_pixels(c) == c.nx_out_pixels
wavelengthNm == 4
ScrnSize == 4
scrnNo == 2

Alts == 0 .. MaxAlt
\* two phase screens: Screen(0) is flat, Screen(1) is not
ScreenIds == {0, 1}

\* atmosConfig.scrnHeights: the layers' altitudes, lowest first
scrnHeights(c) == c.scrnHeights

\* soapyConfig.sim.pxlScale, pixels per metre across the pupil
pxlScale(c) == Q(pupil_size, c.telescope_diameter)
phase_pixel_scale(c) == RDiv(R(1), pxlScale(c))
out_pixel_scale(c) == phase_pixel_scale(c)
phs2Rad == Q(2, wavelengthNm)

\* the height property: config.height, or config.GSHeight when there is none
Height(c) == IF c.hasHeight THEN c.height ELSE c.GSHeight
\* the position property: config.position, or config.GSPosition
Position(c) == c.position

\* the phase screens the atmosphere hands over, in nanometres
Screen(k) ==
    Array(ScrnSize,
          [p \in Pix(ScrnSize) |-> R(k * (p[2] * p[2] + 2 * p[1] + 1))])

\* the aperture mask zoomed to the output grid: dark in one corner
outMask(c) ==
    Array(nx_out_pixels(c),
          [p \in Pix(nx_out_pixels(c)) |->
              Phasor(IF p = <<0, 0>> THEN 0 ELSE 1, R(0))])

-----------------------------------------------------------------------------
(* Exceptions *)

OutOfBounds == "ValueError: Requested phase exceeds phase screen size"
UpToInfinity == "ValueError: Can't propagate up to infinity"
UnboundPos == "UnboundLocalError: pos"
NoHeightAttr == "AttributeError: height"
Broadcast == "ValueError: operands could not be broadcast together"

-----------------------------------------------------------------------------
(* Geometry *)

\* calcMetaPupilSize without the test of line 209: above the source the radius
\* would go negative
calcMetaPupilSize_NoClamp(c, scrnHeight, GSHeight) ==
    IF Height(c) = 0 THEN Q(c.telescope_diameter, 2)
    ELSE RMul(Q(c.telescope_diameter, 2), RSub(R(1), Q(scrnHeight, GSHeight)))

calcMetaPupilSize(c, scrnHeight, GSHeight) ==
    IF Height(c) = 0 THEN Q(c.telescope_diameter, 2)
    ELSE IF scrnHeight >= GSHeight THEN R(0)
    ELSE RMul(Q(c.telescope_diameter, 2), RSub(R(1), Q(scrnHeight, GSHeight)))

\* findMetaPupilSizes: the radii in phase pixels, None for a source at infinity
Radii(c) ==
    IF Height(c) # 0
    THEN [i \in 0 .. scrnNo - 1 |->
            RDiv(calcMetaPupilSize(c, scrnHeights(c)[i], Height(c)),
                 phase_pixel_scale(c))]
    ELSE None

\* numpy.tan(a * ASEC2RAD) for an angle of a units: odd, increasing, not linear
TanAsec(a) == Q(3 * a + a * a * a, 12)

\* numpy.any(apos)
NumpyAny(apos) == apos # None /\ (apos[1] # 0 \/ apos[2] # 0)

getMetaPupilPos(c, height, apos) ==
    IF ~NumpyAny(apos)
    THEN [status |-> "ok",
          ret |-> <<RMul(TanAsec(Position(c)[1]), R(height)),
                    RMul(TanAsec(Position(c)[2]), R(height))>>]
    ELSE [status |-> UnboundPos, ret |-> None]

-----------------------------------------------------------------------------
(* Phase extraction *)

\* numpy.linspace(a, b, n), sorted as interp2d sorts its arguments
Ramp(lo, hi, n) ==
    [i \in 0 .. n - 1 |-> RAdd(lo, RMul(Q(i, n - 1), RSub(hi, lo)))]
Linspace(a, b, n) ==
    IF n = 1 THEN [i \in {0} |-> a]
    ELSE IF RLt(b, a) THEN Ramp(b, a, n) ELSE Ramp(a, b, n)

\* the cell of the screen's grid a coordinate falls in
Cell(scrn, t) == IF RFloor(t) > scrn.n - 2 THEN scrn.n - 2 ELSE RFloor(t)
\* between a and b, the fraction f of the way
Lerp(a, b, f) == RAdd(a, RMul(f, RSub(b, a)))
\* bilinear in the cell <<y0, x0>>, at the fractions fx and fy of its sides
Bilinear(scrn, x0, y0, fx, fy) ==
    Lerp(Lerp(scrn.v[<<y0, x0>>], scrn.v[<<y0, x0 + 1>>], fx),
         Lerp(scrn.v[<<y0 + 1, x0>>], scrn.v[<<y0 + 1, x0 + 1>>], fx), fy)
InterpCell(scrn, x, y, x0, y0) ==
    Bilinear(scrn, x0, y0, RSub(x, R(x0)), RSub(y, R(y0)))
InterpInside(scrn, x, y) ==
    InterpCell(scrn, x, y, Cell(scrn, x), Cell(scrn, y))
\* a coordinate off the grid is taken to the nearest one on it
Nearest(scrn, t) ==
    IF RLt(t, R(0)) THEN R(0)
    ELSE IF RLt(R(scrn.n - 1), t) THEN R(scrn.n - 1) ELSE t
\* interp2d(scrnCoords, scrnCoords, scrn) at (x, y): bilinear between the nodes
Interp(scrn, x, y) == InterpInside(scrn, Nearest(scrn, x), Nearest(scrn, y))

\* the test of line 295 without its second term
WindowOutside_NoUpperX(w, scrnX, scrnY) ==
    \/ RLt(w.x1, R(0))
    \/ RLt(w.y1, R(0))
    \/ RLt(R(scrnY), w.y2)

\* the test that the window leaves the screen
WindowOutside(w, scrnX, scrnY) ==
    \/ RLt(w.x1, R(0))
    \/ RLt(R(scrnX), w.x2)
    \/ RLt(w.y1, R(0))
    \/ RLt(R(scrnY), w.y2)

\* the centre of the meta-pupil on the screen, in metres
Centre(c, height, apos, pos) ==
    IF apos # None THEN getMetaPupilPos(c, height, apos)
    ELSE IF pos # None THEN [status |-> "ok", ret |-> pos]
    ELSE getMetaPupilPos(c, height, None)

\* half the side of the window, in phase pixels
HalfWidth(c, radius) ==
    RMul(IF radius # None THEN RDiv(RMul(R(2), radius), R(pupil_size)) ELSE R(1),
         R(PyRound(RDiv(RDiv(RMul(out_pixel_scale(c), R(nx_out_pixels(c))), R(2)),
                        phase_pixel_scale(c)))))

\* the window of half-side half about the point GSCent of the screen
WindowAt(GSCentX, GSCentY, half, scrnX, scrnY) ==
    [x1 |-> RSub(RAdd(Q(scrnX, 2), GSCentX), half),
     x2 |-> RAdd(RAdd(Q(scrnX, 2), GSCentX), half),
     y1 |-> RSub(RAdd(Q(scrnY, 2), GSCentY), half),
     y2 |-> RAdd(RAdd(Q(scrnY, 2), GSCentY), half)]

Window(c, scrn, radius, centre) ==
    WindowAt(RDiv(centre[1], phase_pixel_scale(c)),
             RDiv(centre[2], phase_pixel_scale(c)),
             HalfWidth(c, radius), scrn.n, scrn.n)

\* the screen interpolated onto the output grid
Resample(n, scrn, xCoords, yCoords) ==
    Array(n,
          [p \in Pix(n) |->
              Interp(scrn, xCoords[p[2]], yCoords[p[1]])])

\* the window w cut from the screen onto n x n pixels, unless it leaves the
\* screen
Cut(n, scrn, w) ==
    IF WindowOutside(w, scrn.n, scrn.n)
    THEN [status |-> OutOfBounds, ret |-> None, window |-> w]
    ELSE [status |-> "ok",
          ret |-> Resample(n, scrn,
                           Linspace(w.x1, RSub(w.x2, R(1)), n),
                           Linspace(w.y1, RSub(w.y2, R(1)), n)),
          window |-> w]

CutAbout(c, scrn, radius, centre) ==
    IF centre.status # "ok"
    THEN [status |-> centre.status, ret |-> None, window |-> None]
    ELSE Cut(nx_out_pixels(c), scrn, Window(c, scrn, radius, centre.ret))

getMetaPupilPhase(c, scrn, height, radius, apos, pos) ==
    IF radius = R(0)
    THEN [status |-> "ok", ret |-> Zeros(sim_size), window |-> None]
    ELSE CutAbout(c, scrn, radius, Centre(c, height, apos, pos))

-----------------------------------------------------------------------------
(* What the instance is constructed with and what frame() is handed *)

\* a source configuration: a WFS exposes GSHeight, an LGS exposes height
\* (hasHeight); the field of the attribute it lacks is never read.  The layers
\* are at altitudes 0 and 1 and the output grid has the simulation's size
Configs(diams, positions) ==
    { [propagationDirection |-> d, propagationMode |-> m,
       hasHeight |-> k = "height", height |-> h, GSHeight |-> h,
       position |-> pos, telescope_diameter |-> t, metaPupilPos |-> None,
       scrnHeights |-> [i \in 0 .. scrnNo - 1 |-> i],
       nx_out_pixels |-> sim_size] :
      d \in {"up", "down"}, m \in {"Geometric", "Physical"},
      k \in {"height", "GSHeight"}, h \in Alts, pos \in positions, t \in diams }

\* other atmospheres: every layer on the ground, and layers up to above the
\* highest source
ScrnHeightsInputs ==
    {[i \in 0 .. scrnNo - 1 |-> 0],
     [i \in 0 .. scrnNo - 1 |-> 1 + i * MaxAlt]}

\* the same sources under another atmosphere
OtherAtmosphere(cs) ==
    {[c EXCEPT !.scrnHeights = h] : c \in cs, h \in ScrnHeightsInputs}

\* the same sources seen on an output grid that is not the simulation's
OtherGrid(cs) == {[c EXCEPT !.nx_out_pixels = sim_size + 1] : c \in cs}

FrameConfigs ==
    Configs({pupil_size}, {<<0, 0>>, <<MaxAngle, 0>>, <<0, 1>>})
    \cup OtherAtmosphere(Configs({pupil_size}, {<<0, 0>>}))
    \cup OtherGrid(Configs({pupil_size}, {<<0, 0>>}))

\* the screens frame() is handed: a stack, one per layer, or None
ScrnInputs == {None} \cup [1 .. scrnNo -> ScreenIds]

\* a correction term is an array [scrn], which may carry an altitude attribute
CorrTerms == {[scrn |-> 1], [scrn |-> 1, altitude |-> 1]}

CorrInputs == {None} \cup UNION {[1 .. n -> CorrTerms] : n \in 1 .. MaxCorr}

CorrAltitude(term) == IF "altitude" \in DOMAIN term THEN term.altitude ELSE 0

LayerRadius(radii, i) == IF radii = None THEN None ELSE radii[i]
LayerPos(c, i) == IF c.metaPupilPos = None THEN None ELSE c.metaPupilPos[i]

\* the extraction of layer i from screen k, as both propagators call it
LayerPhase(c, k, i) ==
    getMetaPupilPhase(c, Screen(k), scrnHeights(c)[i], LayerRadius(Radii(c), i),
                      None, LayerPos(c, i))

\* the extraction of a correction term, as performCorrection calls it
CorrPhase(c, term) ==
    getMetaPupilPhase(c, Screen(term.scrn), CorrAltitude(term),
                      RDiv(calcMetaPupilSize(c, CorrAltitude(term), Height(c)),
                           phase_pixel_scale(c)),
                      None, None)

\* Extraction reads the configuration and its arguments only: the extractions
\* the frames below can ask for are computed once and looked up
LayerPhases ==
    Computed([c \in FrameConfigs |->
                [k \in ScreenIds |-> [i \in 0 .. scrnNo - 1 |-> LayerPhase(c, k, i)]]])

CorrPhases ==
    Computed([c \in FrameConfigs |-> [term \in CorrTerms |-> CorrPhase(c, term)]])

-----------------------------------------------------------------------------
(* The instance: self = [phase, phaseAlloc, EField, EFieldAlloc, residual].   *)
(* A complex field is [n, v, z]: v the values and z the distance it has been  *)
(* carried by angular-spectrum propagation, which is aotools' and is known    *)
(* here only by what it composes to: over distance 0 it changes nothing.      *)

Ones(n) == [n |-> n, v |-> Array(n, [p \in Pix(n) |-> Phasor(1, R(0))]).v, z |-> 0]
FieldOf(a) == [n |-> a.n, v |-> a.v, z |-> 0]
\* the field overwritten by the array, where the code multiplies it in
FieldTimes_Overwrite(f, g) == [n |-> f.n, v |-> g.v, z |-> f.z]

\* field *= array, in place
FieldTimes(f, g) == [n |-> f.n, v |-> Times(f, g).v, z |-> f.z]

\* opticalpropagation.angularSpectrum(field, wavelength, scale, scale, z)
angularSpectrum(f, z) == [f EXCEPT !.z = @ + z]

allocDataArrays(c) ==
    [phase |-> Zeros(nx_out_pixels(c)), phaseAlloc |-> "allocDataArrays",
     EField |-> Ones(nx_out_pixels(c)), EFieldAlloc |-> "allocDataArrays",
     residual |-> [is |-> "unset"]]

\* self.residual is unset, the array self.phase is bound to, or an array of its own
ResidualOf(s) ==
    IF s.residual.is = "self.phase" THEN s.phase
    ELSE [n |-> s.residual.n, v |-> s.residual.v]

\* zeroData without line 316: the phase of the frame before is kept
zeroData_FieldOnly(s) == [s EXCEPT !.EField = Ones(s.EField.n)]

zeroData(s) ==
    [s EXCEPT !.EField = Ones(s.EField.n), !.phase = Zeros(s.phase.n)]

\* makePhaseGeometric without lines 364-365: the same sign in both directions
GeometricSign_Same(c, ph) == ph

\* the sign of the summed phase: changed when propagating up
GeometricSign(c, ph) ==
    IF c.propagationDirection = "up" THEN Scaled(ph, R(-1)) ELSE ph

\* the layer loop of makePhaseGeometric from layer i on: the sum so far is ph,
\* and e is the extraction of layer i
RECURSIVE GeometricLayers(_, _, _, _)
GeometricLayer(c, scrns, i, ph, e) ==
    IF e.status # "ok" THEN [status |-> e.status, phase |-> ph]
    ELSE IF ~Broadcasts(e.ret, ph) THEN [status |-> Broadcast, phase |-> ph]
    ELSE GeometricLayers(c, scrns, i + 1, Plus(ph, e.ret))

GeometricLayers(c, scrns, i, ph) ==
    IF i = Len(scrns) THEN [status |-> "ok", phase |-> ph]
    ELSE GeometricLayer(c, scrns, i, ph, LayerPhases[c][scrns[i + 1]][i])

\* after the loop: the phase rad, in radians, and the field it gives
GeometricField(s, rad) ==
    [status |-> "ok",
     self |-> [s EXCEPT !.phase = rad, !.EField = FieldOf(ExpI(rad))],
     zs |-> <<>>]

GeometricDone(c, s, sum) ==
    IF sum.status # "ok"
    THEN [status |-> sum.status, self |-> [s EXCEPT !.phase = sum.phase],
          zs |-> <<>>]
    ELSE GeometricField(s, GeometricSign(c, Scaled(sum.phase, phs2Rad)))

makePhaseGeometric(c, s, scrns) ==
    GeometricDone(c, s, GeometricLayers(c, scrns, 0, s.phase))

\* ht and ht_final of makePhasePhys: where the propagation starts and ends
StartAltitude(c) ==
    IF c.propagationDirection = "up" THEN 0 ELSE scrnHeights(c)[scrnNo - 1]
TerminalAltitude(c) == IF c.propagationDirection = "up" THEN c.height ELSE 0

\* EFieldBuf before the first layer: the mask going up, a flat field going down
InitialField(c) ==
    IF c.propagationDirection = "up" THEN outMask(c) @@ [z |-> 0]
    ELSE Ones(nx_out_pixels(c))

\* the altitudes the physical loop steps between: reversed when going down
PhysAlts(c) ==
    IF c.propagationDirection = "up" THEN scrnHeights(c)
    ELSE [j \in 0 .. scrnNo - 1 |-> scrnHeights(c)[scrnNo - 1 - j]]

\* the distance to propagate after layer i
PhysDistance(c, scrns, i, ht, ht_final, z_total) ==
    IF i = Len(scrns) - 1 THEN Abs(ht_final - ht) - z_total
    ELSE Abs(PhysAlts(c)[i + 1] - PhysAlts(c)[i])

\* self.phase *= -1 when propagating up
PhysSign(c, s) ==
    IF c.propagationDirection = "up"
    THEN [s EXCEPT !.phase = Scaled(@, R(-1))]
    ELSE s

\* the layer loop of makePhasePhys over the layers order[k..]: t carries
\* self, EFieldBuf (buf), z_total and the distances propagated so far (zs)
RECURSIVE PhysLayers(_, _, _, _, _, _, _)
PhysStep(c, scrns, order, k, ht, ht_final, t, z, buf) ==
    PhysLayers(c, scrns, order, k + 1, ht, ht_final,
               [self |-> [PhysSign(c, t.self) EXCEPT !.EField = buf],
                buf |-> buf, z_total |-> t.z_total + z, zs |-> Append(t.zs, z)])

PhysLayer(c, scrns, order, k, ht, ht_final, t, z, e) ==
    IF e.status # "ok"
    THEN [status |-> e.status, self |-> t.self, zs |-> t.zs]
    ELSE IF ~Broadcasts(e.ret, t.buf)
    THEN [status |-> Broadcast, self |-> PhysSign(c, t.self), zs |-> t.zs]
    ELSE PhysStep(c, scrns, order, k, ht, ht_final, t, z,
                  angularSpectrum(
                      FieldTimes(t.buf, ExpI(Scaled(e.ret, phs2Rad))), z))

PhysLayers(c, scrns, order, k, ht, ht_final, t) ==
    IF k > Len(order) THEN [status |-> "ok", self |-> t.self, zs |-> t.zs]
    ELSE PhysLayer(c, scrns, order, k, ht, ht_final, t,
                   PhysDistance(c, scrns, order[k], ht, ht_final, t.z_total),
                   LayerPhases[c][scrns[order[k] + 1]][order[k]])

\* the field at the first layer: buf0 carried over the gap from ht, if any
PhysStart(buf0, gap) ==
    [buf |-> IF gap # 0 THEN angularSpectrum(buf0, gap) ELSE buf0,
     zs |-> IF gap # 0 THEN <<gap>> ELSE <<>>]

PhysFrom(c, s, scrns, order, ht, ht_final, start) ==
    PhysLayers(c, scrns, order, 1, ht, ht_final,
               [self |-> s, buf |-> start.buf, z_total |-> 0, zs |-> start.zs])

makePhasePhys(c, s, scrns) ==
    IF c.propagationDirection = "up"
    THEN IF ~c.hasHeight THEN [status |-> NoHeightAttr, self |-> s, zs |-> <<>>]
         ELSE IF c.height = 0
         THEN [status |-> UpToInfinity, self |-> s, zs |-> <<>>]
         ELSE PhysFrom(c, s, scrns, [k \in 1 .. Len(scrns) |-> k - 1],
                       0, c.height,
                       PhysStart(outMask(c) @@ [z |-> 0],
                                 Abs(scrnHeights(c)[0] - 0)))
    ELSE PhysFrom(c, s, scrns, [k \in 1 .. Len(scrns) |-> Len(scrns) - k],
                  scrnHeights(c)[Len(scrns) - 1], 0,
                  PhysStart(Ones(nx_out_pixels(c)),
                            Abs(scrnHeights(c)[scrnNo - 1]
                                - scrnHeights(c)[Len(scrns) - 1])))

makePhase(c, s, scrns) ==
    IF c.propagationMode = "Physical" THEN makePhasePhys(c, s, scrns)
    ELSE makePhaseGeometric(c, s, scrns)

\* one correction term applied to self: res is the residual it leaves
Corrected(s, corr, res) ==
    [s EXCEPT !.EField = FieldTimes(@, ExpI(Scaled(corr, RNeg(phs2Rad)))),
              !.residual = [is |-> "array", n |-> res.n, v |-> res.v],
              !.phase = Scaled(res, phs2Rad),
              !.phaseAlloc = "performCorrection"]

CorrectionStep(s, corr) ==
    Corrected(s, corr, Minus(Scaled(s.phase, RDiv(R(1), phs2Rad)), corr))

\* the loop of performCorrection from term k on: e is the extraction of term k
RECURSIVE performCorrection(_, _, _, _)
CorrectionTerm(c, s, correction, k, e) ==
    IF e.status # "ok" THEN [status |-> e.status, self |-> s]
    ELSE IF ~Broadcasts(e.ret, s.EField) THEN [status |-> Broadcast, self |-> s]
    ELSE performCorrection(c, CorrectionStep(s, e.ret), correction, k + 1)

performCorrection(c, s, correction, k) ==
    IF k > Len(correction) THEN [status |-> "ok", self |-> s]
    ELSE CorrectionTerm(c, s, correction, k, CorrPhases[c][correction[k]])

\* frame() once the phase is made (m) and corrected (p): what it returns.
\* performCorrection binds self.phase to new arrays, so the array self.phase
\* was bound to when frame() began is left as makePhase wrote it (buffer)
FrameReturn(m, p) ==
    [status |-> p.status,
     ret |-> IF p.status = "ok" THEN ResidualOf(p.self) ELSE None,
     self |-> p.self, zs |-> m.zs, buffer |-> m.self.phase]

\* self.residual = self.phase, then the correction, if there is one
FrameCorrect(c, s1, correction) ==
    IF correction # None THEN performCorrection(c, s1, correction, 1)
    ELSE [status |-> "ok", self |-> s1]

FrameResidual(c, m, correction) ==
    IF m.status # "ok"
    THEN [status |-> m.status, ret |-> None, self |-> m.self, zs |-> m.zs,
          buffer |-> m.self.phase]
    ELSE FrameReturn(m, FrameCorrect(c, [m.self EXCEPT
                                           !.residual = [is |-> "self.phase"]],
                                     correction))

FramePhase(c, s0, scrns) ==
    IF scrns # None THEN makePhase(c, s0, scrns)
    ELSE [status |-> "ok", self |-> s0, zs |-> <<>>]

\* frame(scrns, correction) on self: how it ended, what it returned, self after
\* it, the distances it propagated the field over, and what it left in the
\* array that self.phase was bound to when it was called
frame(c, s, scrns, correction) ==
    FrameResidual(c, FramePhase(c, zeroData(s), scrns), correction)

-----------------------------------------------------------------------------
(* The instance's life: construction, then frame() once per time step *)

Self == [phase |-> phase, phaseAlloc |-> phaseAlloc, EField |-> EField,
         EFieldAlloc |-> EFieldAlloc, residual |-> residual]

Init ==
    /\ cfg \in FrameConfigs
    /\ phase = allocDataArrays(cfg).phase
    /\ phaseAlloc = allocDataArrays(cfg).phaseAlloc
    /\ EField = allocDataArrays(cfg).EField
    /\ EFieldAlloc = allocDataArrays(cfg).EFieldAlloc
    /\ residual = allocDataArrays(cfg).residual
    /\ call = [method |-> "__init__", status |-> "ok"]

Frame ==
    \E scrns \in ScrnInputs, correction \in CorrInputs :
        \E r \in {frame(cfg, Self, scrns, correction)} :
            /\ phase' = r.self.phase
            /\ phaseAlloc' = r.self.phaseAlloc
            /\ EField' = r.self.EField
            /\ EFieldAlloc' = r.self.EFieldAlloc
            /\ residual' = r.self.residual
            /\ call' = [method |-> "frame", scrns |-> scrns,
                        correction |-> correction, status |-> r.status,
                        ret |-> r.ret, zs |-> r.zs, buffer |-> r.buffer]
            /\ UNCHANGED cfg

Next == Frame

Spec == Init /\ [][Next]_vars

-----------------------------------------------------------------------------
(* The geometry and the extraction called on their own: the configuration and *)
(* the arguments are drawn at the start, and the call returns                 *)

\* the geometry and the extraction read neither the direction nor the mode
CallConfigs ==
    {c \in Configs(1 .. MaxDiam,
                   {<<0, 0>>, <<1, 0>>, <<MaxAngle, 0>>, <<0, -MaxAngle>>}) :
        c.propagationDirection = "down" /\ c.propagationMode = "Geometric"}

AposInputs == {None, <<0, 0>>, <<1, 0>>, <<0, -MaxAngle>>}
PosInputs == {None, <<R(1), R(0)>>}
RadiusInputs(c) ==
    {None} \cup {RDiv(calcMetaPupilSize(c, h, Height(c)), phase_pixel_scale(c)) :
                   h \in Alts}

Calls(c) ==
    {[method |-> "calcMetaPupilSize", status |-> "called", scrnHeight |-> h,
      GSHeight |-> Height(c)] : h \in Alts}
    \cup {[method |-> "getMetaPupilPos", status |-> "called", height |-> h,
           apos |-> a] : h \in Alts, a \in AposInputs}
    \cup {[method |-> "getMetaPupilPhase", status |-> "called", scrn |-> k,
           height |-> h, radius |-> r, apos |-> a, pos |-> q] :
          k \in ScreenIds, h \in Alts, r \in RadiusInputs(c), a \in AposInputs,
          q \in PosInputs}

InitCalls ==
    /\ cfg \in CallConfigs
    /\ phase = allocDataArrays(cfg).phase
    /\ phaseAlloc = allocDataArrays(cfg).phaseAlloc
    /\ EField = allocDataArrays(cfg).EField
    /\ EFieldAlloc = allocDataArrays(cfg).EFieldAlloc
    /\ residual = allocDataArrays(cfg).residual
    /\ call \in Calls(cfg)

Unchanged == UNCHANGED <<cfg, phase, phaseAlloc, EField, EFieldAlloc, residual>>

CalcMetaPupilSize ==
    /\ call.method = "calcMetaPupilSize" /\ call.status = "called"
    /\ call' = [call EXCEPT !.status = "ok"] @@
               [ret |-> calcMetaPupilSize(cfg, call.scrnHeight, call.GSHeight)]
    /\ Unchanged

GetMetaPupilPos ==
    /\ call.method = "getMetaPupilPos" /\ call.status = "called"
    /\ \E r \in {getMetaPupilPos(cfg, call.height, call.apos)} :
         call' = [call EXCEPT !.status = r.status] @@ [ret |-> r.ret]
    /\ Unchanged

GetMetaPupilPhase ==
    /\ call.method = "getMetaPupilPhase" /\ call.status = "called"
    /\ \E r \in {getMetaPupilPhase(cfg, Screen(call.scrn), call.height,
                                   call.radius, call.apos, call.pos)} :
         call' = [call EXCEPT !.status = r.status] @@
                 [ret |-> r.ret, window |-> r.window, scrnX |-> ScrnSize,
                  scrnY |-> ScrnSize]
    /\ Unchanged

NextCalls == CalcMetaPupilSize \/ GetMetaPupilPos \/ GetMetaPupilPhase

SpecCalls == InitCalls /\ [][NextCalls]_vars

-----------------------------------------------------------------------------
(* Properties of the geometry and the extraction, of SpecCalls *)

Returned(m) == call.method = m /\ call.status # "called"

\* C1: calcMetaPupilSize returns the telescope radius for a source at altitude
\* 0, exactly 0 for a layer at or above a source of finite altitude, and
\* otherwise (telescope_diameter / 2) * (1 - scrnHeight / GSHeight); it is never
\* negative
C1_MetaPupilRadius ==
    Returned("calcMetaPupilSize") =>
        /\ call.ret[2] > 0
        /\ call.ret[1] >= 0
        /\ call.GSHeight = 0 => 2 * call.ret[1] = cfg.telescope_diameter * call.ret[2]
        /\ (call.GSHeight # 0 /\ call.scrnHeight >= call.GSHeight) => call.ret[1] = 0
        /\ (call.GSHeight # 0 /\ call.scrnHeight < call.GSHeight) =>
              2 * call.GSHeight * call.ret[1]
                 = cfg.telescope_diameter * (call.GSHeight - call.scrnHeight)
                   * call.ret[2]

\* a layer strictly between the ground and a source of finite altitude
C1_BelowTheSource ==
    /\ Returned("calcMetaPupilSize")
    /\ 0 < call.scrnHeight /\ call.scrnHeight < call.GSHeight
    /\ call.ret[1] > 0 /\ 2 * call.ret[1] < cfg.telescope_diameter * call.ret[2]

C9_AposOverrides ==
    /\ (Returned("getMetaPupilPos") /\ call.apos # None) =>
          /\ call.status = "ok"
          /\ call.ret = <<RMul(TanAsec(call.apos[1]), R(call.height)),
                          RMul(TanAsec(call.apos[2]), R(call.height))>>
    /\ (Returned("getMetaPupilPhase") /\ call.apos # None) =>
          call.status \in {"ok", OutOfBounds}

-----------------------------------------------------------------------------
(* Properties of frame(), of Spec *)

Framed == call.method = "frame"

\* the configuration with the other direction of propagation
Opposite(c) ==
    [c EXCEPT !.propagationDirection = IF @ = "up" THEN "down" ELSE "up"]

\* C2: whatever the frames before did, frame() ends as it does on an instance
\* just constructed: the same outcome, residual, phase and field
C2_FrameFromReset ==
    Framed =>
        \A f \in {frame(cfg, allocDataArrays(cfg), call.scrns, call.correction)} :
            /\ call.status = f.status
            /\ call.ret = f.ret
            /\ phase = f.self.phase
            /\ EField = f.self.EField

\* a frame without correction that returns a phase, after a frame with one
C2_AfterACorrectedFrame ==
    /\ Framed /\ call.status = "ok"
    /\ call.scrns # None /\ call.correction = None
    /\ phaseAlloc = "performCorrection"
    /\ call.ret # Zeros(nx_out_pixels(cfg))

\* C3 as stated: the residual returned going up is the negation of the one
\* returned going down, for the same screens and corrections
C3_SignLawWithCorrections ==
    (Framed /\ call.status = "ok") =>
        \A f \in {frame(Opposite(cfg), allocDataArrays(cfg), call.scrns,
                        call.correction)} :
            f.status = "ok" => call.ret = Scaled(f.ret, R(-1))

\* C3, amended: without corrections, when frame() returns in both directions,
\* the residual returned going up is the negation of the one returned going down
C3_SignLaw ==
    (Framed /\ call.status = "ok" /\ call.correction = None) =>
        \A f \in {frame(Opposite(cfg), allocDataArrays(cfg), call.scrns, None)} :
            f.status = "ok" => call.ret = Scaled(f.ret, R(-1))

\* a frame that returns a phase that is not zero, and returns the other way too
C3_BothDirections ==
    /\ Framed /\ call.status = "ok" /\ call.correction = None
    /\ call.scrns # None /\ call.ret # Zeros(nx_out_pixels(cfg))
    /\ frame(Opposite(cfg), allocDataArrays(cfg), call.scrns, None).status = "ok"

\* the corrections from term k on, extracted, in radians and summed
RECURSIVE CorrectionsRad(_, _, _)
CorrectionsRad(c, correction, k) ==
    IF k > Len(correction) THEN Zeros(nx_out_pixels(cfg))
    ELSE Plus(Scaled(CorrPhases[c][correction[k]].ret, phs2Rad),
              CorrectionsRad(c, correction, k + 1))

\* C4: with corrections, frame() returns the phase of the turbulence, in
\* radians as without corrections, less the corrections in radians
C4_ResidualInRadians ==
    (Framed /\ call.status = "ok" /\ call.correction # None) =>
        call.ret = Minus(frame(cfg, allocDataArrays(cfg), call.scrns, None).ret,
                         CorrectionsRad(cfg, call.correction, 1))

\* the phase the turbulence adds up to along the line of sight, in nanometres
Turbulence(c, scrns) ==
    Scaled(frame([c EXCEPT !.propagationMode = "Geometric"], allocDataArrays(c),
                 scrns, None).ret,
           RDiv(R(1), phs2Rad))

\* C5: in either mode, one correction at altitude 0 that equals the phase of
\* the turbulence leaves a residual of zero and a field of zero phase
C5_CorrectionCancels ==
    (/\ Framed /\ call.status = "ok"
     /\ call.scrns # None /\ call.correction # None
     /\ Len(call.correction) = 1 /\ CorrAltitude(call.correction[1]) = 0
     /\ CorrPhases[cfg][call.correction[1]].ret = Turbulence(cfg, call.scrns)) =>
        /\ call.ret = Zeros(nx_out_pixels(cfg))
        /\ \A p \in Pix(nx_out_pixels(cfg)) : EField.v[p].arg = R(0)

\* C6: a frame() that fails leaves the phase and the field as zeroData left
\* them, with no part of the failed call's layers or corrections in them
C6_CleanFailure ==
    (Framed /\ call.status # "ok") =>
        /\ phase = Zeros(nx_out_pixels(cfg))
        /\ EField = Ones(nx_out_pixels(cfg))

\* C8: physical propagation up to a source at altitude 0 raises the error of
\* line 389, with no layer applied to the field
C8_UpToInfinity ==
    (/\ Framed /\ call.scrns # None
     /\ cfg.propagationMode = "Physical" /\ cfg.propagationDirection = "up"
     /\ Height(cfg) = 0) =>
        /\ call.status = UpToInfinity
        /\ EField = Ones(nx_out_pixels(cfg))

\* C10: self.phase and self.EField are always the arrays allocDataArrays made
C10_SameBuffers ==
    /\ phaseAlloc = "allocDataArrays"
    /\ EFieldAlloc = "allocDataArrays"

-----------------------------------------------------------------------------
(* Physical propagation *)

PhysicalFrame ==
    Framed /\ cfg.propagationMode = "Physical" /\ call.scrns # None

\* the phases of the layers from layer i on, in radians, summed
RECURSIVE LayerPhaseSum(_, _, _)
LayerPhaseSum(c, scrns, i) ==
    IF i = Len(scrns) THEN Zeros(nx_out_pixels(c))
    ELSE Plus(Scaled(LayerPhases[c][scrns[i + 1]][i].ret, phs2Rad),
              LayerPhaseSum(c, scrns, i + 1))

\* every layer is at the altitude the propagation starts from, and it ends there
ZeroDistance(c) ==
    /\ TerminalAltitude(c) = StartAltitude(c)
    /\ \A i \in 0 .. scrnNo - 1 : scrnHeights(c)[i] = StartAltitude(c)

\* C11: physical propagation over a total distance of 0 only applies the phase:
\* every angular-spectrum step is over distance 0, and the field is the initial
\* field times exp(i * the sum of the layers' phases in radians)
C11_PurePhase ==
    (PhysicalFrame /\ call.status = "ok" /\ call.correction = None
     /\ ZeroDistance(cfg)) =>
        /\ Len(call.zs) = Len(call.scrns)
        /\ \A k \in 1 .. Len(call.zs) : call.zs[k] = 0
        /\ EField = FieldTimes(InitialField(cfg),
                               ExpI(LayerPhaseSum(cfg, call.scrns, 0)))

\* two layers on the ground, neither flat, seen from above
C11_AllOnTheGround ==
    /\ PhysicalFrame /\ call.status = "ok" /\ call.correction = None
    /\ ZeroDistance(cfg)
    /\ \A k \in 1 .. Len(call.scrns) : call.scrns[k] = 1
    /\ EField # Ones(nx_out_pixels(cfg))

RECURSIVE SeqSum(_)
SeqSum(zs) == IF zs = <<>> THEN 0 ELSE Head(zs) + SeqSum(Tail(zs))

\* the distances propagated after the layers, in the order they were traversed:
\* those recorded, less the step to the first layer when there was one
LayerDistances(c, zs) ==
    IF PhysAlts(c)[0] # StartAltitude(c) THEN Tail(zs) ELSE zs

\* C12: in a physical propagation every layer but the last traversed is
\* followed by the gap to the next layer traversed, the last one by what is
\* left of the path, so that the distances propagated (the step to the first
\* layer included) sum to |terminal altitude - start altitude|, and none of
\* them is negative
C12_PathClosesExactly ==
    (PhysicalFrame /\ call.status = "ok") =>
        \A ds \in {LayerDistances(cfg, call.zs)} :
            /\ Len(ds) = Len(call.scrns)
            /\ \A j \in 1 .. Len(ds) - 1 :
                   ds[j] = Abs(PhysAlts(cfg)[j] - PhysAlts(cfg)[j - 1])
            /\ SeqSum(call.zs)
                 = Abs(TerminalAltitude(cfg) - StartAltitude(cfg))
            /\ \A k \in 1 .. Len(call.zs) : call.zs[k] >= 0

\* the same instance, had it been configured for geometric propagation
Geometric(c) == [c EXCEPT !.propagationMode = "Geometric"]

\* C13: going up, the physical propagation multiplies into the field the
\* negated phase of each layer, as the geometric one does: the phases that the
\* field has been multiplied by (its values, whatever the distances it was
\* carried over) are those of the geometric field for the same layers,
\* wherever the mask lets light through
C13_UpSignAsGeometric ==
    (PhysicalFrame /\ call.status = "ok" /\ call.correction = None
     /\ cfg.propagationDirection = "up") =>
        \A g \in {frame(Geometric(cfg), allocDataArrays(cfg), call.scrns,
                        None)} :
            g.status = "ok" =>
                \A p \in Pix(nx_out_pixels(cfg)) :
                    EField.v[p].amp # 0 =>
                        EField.v[p].arg = g.self.EField.v[p].arg

-----------------------------------------------------------------------------
(* Layers at or above the source *)

\* C14: the extraction of a layer whose meta-pupil radius is 0 is an array of
\* zeros of the size of the output grid, nx_out_pixels, also when that is not
\* the simulation's size: such a layer adds nothing and does not make frame()
\* fail
C14_ZeroRadiusIsOutputSized ==
    (Framed /\ call.scrns # None /\ Radii(cfg) # None) =>
        \A i \in 0 .. scrnNo - 1 :
            Radii(cfg)[i] = R(0) =>
                /\ LayerPhases[cfg][call.scrns[i + 1]][i].status = "ok"
                /\ LayerPhases[cfg][call.scrns[i + 1]][i].ret
                     = Zeros(nx_out_pixels(cfg))
                /\ call.status # Broadcast

-----------------------------------------------------------------------------
(* The array frame() returns *)

\* The array the last frame() returned, as its caller sees it after the step:
\* it is either the array self.phase was bound to, which the next frame()
\* writes in place, or an array of its own that nothing writes to again
ReturnedAfterStep ==
    IF residual.is = "self.phase" THEN call'.buffer ELSE call.ret

\* C15: the residual a frame() returned still holds the values it was returned
\* with after the next frame() on the same instance, whether or not either
\* frame was given corrections
C15_ReturnedResidualKept ==
    [][(Framed /\ call.status = "ok") => ReturnedAfterStep = call.ret]_vars

====
